---- MODULE Spec2Model ----
(***************************************************************************)
(* State-machine model of crates/wasmito-addr2line/src/lib.rs.             *)
(*                                                                         *)
(* A Module owns an immutable byte buffer.  The crate never decodes the    *)
(* bytes itself: it reads them through wasmparser (payload stream,         *)
(* function bodies) and through the wasm-tools / addr2line debug reader    *)
(* (context, line table).  The model therefore represents a module by the  *)
(* decoded views those two readers deliver for its bytes, and the public   *)
(* operations addr2line, mappings, files and                               *)
(* mappings_including_instruction_offsets by what lib.rs does with them.   *)
(*                                                                         *)
(* Option<T> is a sequence of length at most one.  Result<T, E> is a       *)
(* record [tag, err, val]; tag "Panic" is an arithmetic-overflow abort of  *)
(* a build with overflow checks.  u64 is scaled down to AddrBits bits.     *)
(***************************************************************************)
EXTENDS Integers, Sequences, FiniteSets, TLC

\* ---------------------------------------------------------------- bounds
AddrBits   == 6   \* width of the modelled u64
MaxStart   == 1   \* largest code-section start offset
MaxFuncs   == 2   \* function bodies in the code section
MaxRows    == 2   \* rows of the debug line table

U64Max == 2^AddrBits - 1

VARIABLES
    module,    \* the decoded views of the bytes held by the Module
    mappings,  \* the caller's cached result of mappings(), or Unset
    result     \* [op, arg, out]: the last public call and what it returned

vars == <<module, mappings, result>>

\* ------------------------------------------------------ Option and Result
None    == <<>>
Some(x) == <<x>>

Ok(v)  == [tag |-> "Ok",    err |-> "",         val |-> v]
Err(e) == [tag |-> "Err",   err |-> e,          val |-> <<>>]
Panic  == [tag |-> "Panic", err |-> "overflow", val |-> <<>>]
Unset  == [tag |-> "Unset", err |-> "",         val |-> <<>>]

\* ------------------------------------------------------------ u64 arithmetic
\* a + b on u64.  With overflow checks the sum aborts when it leaves the
\* range; without them it wraps.
AddU64(a, b, checks) ==
    IF a + b <= U64Max THEN Ok(a + b)
    ELSE IF checks THEN Panic
    ELSE Ok((a + b) % (U64Max + 1))

\* usize -> u64 (try_into)
TryIntoU64(x) == IF x >= 0 /\ x <= U64Max THEN Ok(x) ELSE Err("Cast")

\* ------------------------------------------------- the debug reader's records
\* Addr2LineLocation values the line table can hold: file, line and column
\* are each optional; column Some(0) is the left edge of the line.
RawLocations ==
    { [file |-> Some("a.c"), line |-> Some(1), column |-> None],
      [file |-> Some("a.c"), line |-> Some(1), column |-> Some(0)],
      [file |-> None,        line |-> None,    column |-> None] }

\* bytes covered by a row that is not the last of its sequence: one byte,
\* or more than one
RowSizes == {1, 2}

\* offset of row i of one line sequence that starts at text offset 0 and
\* whose rows are contiguous
RECURSIVE RowOffset(_, _)
RowOffset(sizes, i) == IF i = 1 THEN 0 ELSE RowOffset(sizes, i - 1) + sizes[i - 1]

\* The rows of a line sequence, in ascending address order: row i covers
\* [offset, offset + size).  The last row ends where the sequence ends: at
\* end when that lies beyond the row's offset, else after sizes[i] bytes.
Rows(sizes, locs, end) ==
    [i \in 1..Len(sizes) |->
        [offset   |-> RowOffset(sizes, i),
         size     |-> IF i = Len(sizes) /\ end > RowOffset(sizes, i)
                      THEN end - RowOffset(sizes, i)
                      ELSE sizes[i],
         location |-> locs[i]]]

\* Line tables over the locations locs for a code section of codeSize bytes;
\* the sequence ends after its last row, at the end of the code section, or at
\* the largest address the table can express.
LineTables(locs, codeSize) ==
    { Rows(t[1], t[2], t[3]) :
        t \in UNION { [1..n -> RowSizes] \X [1..n -> locs] \X {0, codeSize, U64Max}
                      : n \in 0..MaxRows } }

\* what the debug reader makes of a module: no debug info, a context that
\* fails to build, a line table that fails to read, or a readable line table
DebugViews(locs, codeSize) ==
    ({"none", "err", "lineErr"} \X {<<>>}) \cup ({"ok"} \X LineTables(locs, codeSize))

\* ------------------------------------------------------ the wasm structure
\* A function body: nlocals local declarations, then nops operators.  fail = k
\* > 0 says the k-th decoding step of the body is malformed, the steps being
\* get_locals_reader, each locals read, get_operators_reader, each operator.
BodySteps(b) == 2 + b.nlocals + b.nops

\* two operators and no local, or a local and an operator
BodyShapes == { <<0, 2>>, <<1, 1>> }

Bodies ==
    UNION { { [nlocals |-> sh[1], nops |-> sh[2], fail |-> k] :
                k \in 0..(2 + sh[1] + sh[2]) } : sh \in BodyShapes }

\* bytes of a body: size, locals count, two per local declaration, one per
\* operator
BodyLen(b) == 2 + 2 * b.nlocals + b.nops

RECURSIVE SumLen(_, _)
SumLen(funcs, n) == IF n = 0 THEN 0 ELSE SumLen(funcs, n - 1) + BodyLen(funcs[n])

\* the code section body: the function count, then the bodies
CodeSize(funcs) == 1 + SumLen(funcs, Len(funcs))
EntryPos(start, funcs, i) == start + 1 + SumLen(funcs, i - 1)

\* Code sections; nothing after the first malformed body is ever decoded, so
\* at most one body is malformed.
FuncSeqs ==
    { f \in UNION { [1..n -> Bodies] : n \in 0..MaxFuncs } :
        \A i, j \in DOMAIN f : (i < j /\ f[i].fail # 0) => f[j].fail = 0 }

\* A module as its readers see it.
\*   perr    where the payload stream is malformed: nowhere, before the code
\*           section, or after its entries
\*   hasCode, start, funcs   the code section
\*   debug, rows             the debug reader's view
ModuleOf(perr, hasCode, start, funcs, view) ==
    [perr |-> perr, hasCode |-> hasCode, start |-> start, funcs |-> funcs,
     debug |-> view[1], rows |-> view[2]]

\* every line table, over an empty code section and over one function
DebugSide ==
    { ModuleOf("none", TRUE, x[1][1], x[1][2], x[2]) :
        x \in UNION { {<<s, f>>} \X DebugViews(RawLocations, CodeSize(f)) :
                        s \in 1..MaxStart,
                        f \in { g \in FuncSeqs :
                                  Len(g) <= 1 /\ \A i \in DOMAIN g : g[i].fail = 0 } } }

\* every code section, over the line tables of one location
ScanSide ==
    { ModuleOf("none", TRUE, MaxStart, x[1], x[2]) :
        x \in UNION { {f} \X ({"ok"} \X LineTables(
                          {[file |-> Some("a.c"), line |-> Some(1), column |-> None]},
                          CodeSize(f))) : f \in FuncSeqs } }

NoCode ==
    { ModuleOf("none", FALSE, 0, <<>>, v) : v \in DebugViews(RawLocations, 0) }

Malformed ==
    { ModuleOf("pre", FALSE, 0, <<>>, <<"none", <<>> >>),
      ModuleOf("post", TRUE, 1, <<>>, <<"none", <<>> >>) }

Modules == DebugSide \cup ScanSide \cup NoCode \cup Malformed

\* wasmparser's payload stream for the module (Parser::parse_all); an Err
\* payload ends it
Payloads(m) ==
    IF m.perr = "pre" THEN << [kind |-> "Other"], [kind |-> "Err"] >>
    ELSE IF ~m.hasCode THEN << [kind |-> "Other"], [kind |-> "Other"] >>
    ELSE << [kind |-> "Other"],
            [kind |-> "CodeSectionStart", size |-> CodeSize(m.funcs),
             start |-> m.start] >>
         \o [i \in 1..Len(m.funcs) |->
                [kind |-> "CodeSectionEntry", body |-> m.funcs[i],
                 pos |-> EntryPos(m.start, m.funcs, i)]]
         \o << [kind |-> IF m.perr = "post" THEN "Err" ELSE "Other"] >>

\* ------------------------------------------------------- the debug reader
MapErr(r, e) == IF r.tag = "Err" THEN Err(e) ELSE r

\* Addr2lineModules::parse walks the whole payload stream and fails on the
\* first malformed payload.
Addr2lineModulesParse(m) ==
    IF \E i \in DOMAIN Payloads(m) : Payloads(m)[i].kind = "Err"
    THEN Err("reason") ELSE Ok(m.rows)

\* Addr2lineModules::context(addr, false): no context when the module has no
\* debug info or the address lies outside the code it describes; otherwise
\* the context together with the text-relative address.
Context(m, addr) ==
    IF m.debug = "err" THEN Err("reason")
    ELSE IF \/ m.debug = "none"
            \/ ~m.hasCode
            \/ addr < m.start
            \/ addr > m.start + CodeSize(m.funcs)
         THEN Ok(None)
    ELSE Ok(Some(addr - m.start))

Covers(row, probe) == row.offset <= probe /\ probe < row.offset + row.size

\* Context::find_location(probe): the location of the row covering probe
FindLocation(m, probe) ==
    IF m.debug = "lineErr" THEN Err("reason")
    ELSE LET hits == { i \in DOMAIN m.rows : Covers(m.rows[i], probe) }
         IN  IF hits = {} THEN Ok(None)
             ELSE Ok(Some(m.rows[CHOOSE i \in hits : TRUE].location))

\* Context::find_location_range(low, high): the rows meeting [low, high), in
\* table order, each as (address, size, location)
FindLocationRange(m, low, high) ==
    IF m.debug = "lineErr" THEN Err("reason")
    ELSE LET Meets(row) == row.offset < high /\ row.offset + row.size > low
         IN  Ok(SelectSeq(m.rows, Meets))

\* ------------------------------------------------------------------ lib.rs
\* LocationFrom with an absent column turned into column 0
LocationFrom_ColumnZero(value) ==
    [file   |-> IF value.file = None THEN None ELSE Some(value.file[1]),
     line   |-> value.line,
     column |-> IF value.column = None THEN Some(0) ELSE value.column]

\* impl From<Addr2LineLocation> for Location
LocationFrom(value) ==
    [file   |-> IF value.file = None THEN None ELSE Some(value.file[1]),
     line   |-> value.line,
     column |-> value.column]

\* Module::determine_code_section_size: the first CodeSectionStart of the
\* payload stream; None is CodeSectionInformationOutcome::NoCodeSection
RECURSIVE FirstCodeSection(_, _)
FirstCodeSection(ps, i) ==
    IF i > Len(ps) THEN Ok(None)
    ELSE IF ps[i].kind = "Err" THEN Err("Wasmparser")
    ELSE IF ps[i].kind = "CodeSectionStart"
         THEN Ok(Some([start_offset |-> ps[i].start, size |-> ps[i].size]))
    ELSE FirstCodeSection(ps, i + 1)

\* determine_code_section_size with an absent code section reported as an
\* error
determine_code_section_size_NoneIsError(m) ==
    LET r == FirstCodeSection(Payloads(m), 1)
    IN  IF r.tag = "Ok" /\ r.val = None THEN Err("Wasmparser") ELSE r

determine_code_section_size(m) == FirstCodeSection(Payloads(m), 1)

\* MappingAddress with the reader's offset left out
MappingAddress_NoOffset(start, offset, checks) == AddU64(start, 1, checks)

\* the address of a Mapping: code_section_start_offset + address + 1
MappingAddress(start, offset, checks) ==
    LET s1 == AddU64(start, offset, checks)
    IN  IF s1.tag # "Ok" THEN s1 ELSE AddU64(s1.val, 1, checks)

\* the for loop of Module::mappings over the reader's ranges
RECURSIVE CollectMappings(_, _, _, _, _)
CollectMappings(start, ranges, i, acc, checks) ==
    IF i > Len(ranges) THEN Ok(acc)
    ELSE LET a == MappingAddress(start, ranges[i].offset, checks)
         IN  IF a.tag # "Ok" THEN a
             ELSE CollectMappings(start, ranges, i + 1,
                     Append(acc, [address    |-> a.val,
                                  range_size |-> ranges[i].size,
                                  location   |-> LocationFrom(ranges[i].location)]),
                     checks)

\* Module::mappings
MappingsOf(m, checks) ==
    LET parsed == MapErr(Addr2lineModulesParse(m), "Wasmparser")
        cs     == determine_code_section_size(m)
    IN  IF parsed.tag = "Err" THEN parsed
        ELSE IF cs.tag = "Err" THEN cs
        ELSE IF cs.val = None THEN Ok(<<>>)
        ELSE LET info  == cs.val[1]
                 start == MapErr(TryIntoU64(info.start_offset), "Cast")
             IN  IF start.tag = "Err" THEN start
                 ELSE LET ctx == MapErr(Context(m, start.val), "ContextCreation1")
                      IN  IF ctx.tag = "Err" THEN ctx
                          ELSE IF ctx.val = None THEN Err("ContextCreation2")
                          ELSE LET rel    == ctx.val[1]
                                   ranges == MapErr(
                                       FindLocationRange(m, rel, info.size),
                                       "FindTextOffset1")
                               IN  IF ranges.tag = "Err" THEN ranges
                                   ELSE CollectMappings(start.val, ranges.val, 1,
                                                        <<>>, checks)

\* addr2line with the lookup at the raw byte address
Addr2lineOf_RawAddress(m, byte_address) ==
    LET parsed == MapErr(Addr2lineModulesParse(m), "Wasmparser")
        ctx    == MapErr(Context(m, byte_address), "ContextCreation1")
    IN  IF parsed.tag = "Err" THEN parsed
        ELSE IF ctx.tag = "Err" THEN ctx
        ELSE IF ctx.val = None THEN Err("ContextCreation2")
        ELSE LET outcome == MapErr(FindLocation(m, byte_address), "FindTextOffset1")
             IN  IF outcome.tag = "Err" THEN outcome
                 ELSE IF outcome.val = None THEN Err("FindTextOffset2")
                 ELSE Ok(LocationFrom(outcome.val[1]))

\* Module::addr2line
Addr2lineOf(m, byte_address) ==
    LET parsed == MapErr(Addr2lineModulesParse(m), "Wasmparser")
        ctx    == MapErr(Context(m, byte_address), "ContextCreation1")
    IN  IF parsed.tag = "Err" THEN parsed
        ELSE IF ctx.tag = "Err" THEN ctx
        ELSE IF ctx.val = None THEN Err("ContextCreation2")
        ELSE LET text_relative_address == ctx.val[1]
                 outcome == MapErr(FindLocation(m, text_relative_address),
                                   "FindTextOffset1")
             IN  IF outcome.tag = "Err" THEN outcome
                 ELSE IF outcome.val = None THEN Err("FindTextOffset2")
                 ELSE Ok(LocationFrom(outcome.val[1]))

\* Module::files
FilesOf(m, checks) ==
    LET ms == MappingsOf(m, checks)
    IN  IF ms.tag # "Ok" THEN ms
        ELSE Ok({ ms.val[i].location.file[1] :
                    i \in { j \in DOMAIN ms.val : ms.val[j].location.file # None } })

\* contains of the closed range start..=end
Contains_Inclusive(range, x) == range.start <= x /\ x <= range.end

\* Range<u64>::contains
Contains(range, x) == range.start <= x /\ x < range.end

\* MappingWithInstructions::new
MappingWithInstructionsNew(mapping, checks) ==
    LET end == AddU64(mapping.address, mapping.range_size, checks)
    IN  IF end.tag # "Ok" THEN end
        ELSE Ok([address_range |-> [start |-> mapping.address, end |-> end.val],
                 instructions  |-> <<>>,
                 location      |-> mapping.location])

\* .into_iter().map(MappingWithInstructions::new).collect()
RECURSIVE NewBuckets(_, _, _, _)
NewBuckets(ms, i, acc, checks) ==
    IF i > Len(ms) THEN Ok(acc)
    ELSE LET b == MappingWithInstructionsNew(ms[i], checks)
         IN  IF b.tag # "Ok" THEN b
             ELSE NewBuckets(ms, i + 1, Append(acc, b.val), checks)

\* for mapping in &mut mappings { if contains { push } }
PushAll(buckets, item) ==
    [i \in DOMAIN buckets |->
        IF Contains(buckets[i].address_range, item.address)
        THEN [buckets[i] EXCEPT !.instructions = Append(@, item)]
        ELSE buckets[i]]

\* the locals loop of a function body that starts at byte pos
RECURSIVE ScanLocals(_, _, _, _)
ScanLocals(b, pos, k, buckets) ==
    IF k > b.nlocals THEN Ok(buckets)
    ELSE IF b.fail = 1 + k THEN Err("reason")
    ELSE ScanLocals(b, pos, k + 1,
            PushAll(buckets, [address |-> pos + 2 + 2 * (k - 1),
                              instr   |-> "Local"]))

\* the operators loop of a function body that starts at byte pos
RECURSIVE ScanOperators(_, _, _, _)
ScanOperators(b, pos, k, buckets) ==
    IF k > b.nops THEN Ok(buckets)
    ELSE IF b.fail = 2 + b.nlocals + k THEN Err("reason")
    ELSE ScanOperators(b, pos, k + 1,
            PushAll(buckets, [address |-> pos + 2 + 2 * b.nlocals + (k - 1),
                              instr   |-> "Body"]))

\* ScanBody that gives up on a malformed body without reporting it
ScanBody_SkipMalformed(b, pos, buckets) ==
    IF b.fail = 1 THEN Ok(buckets)
    ELSE LET locals == ScanLocals(b, pos, 1, buckets)
         IN  IF locals.tag = "Err" THEN Ok(buckets)
             ELSE IF b.fail = 2 + b.nlocals THEN Ok(locals.val)
             ELSE LET ops == ScanOperators(b, pos, 1, locals.val)
                  IN  IF ops.tag = "Err" THEN Ok(locals.val) ELSE ops

\* ScanBody with the operators read before the locals
ScanBody_OperatorsFirst(b, pos, buckets) ==
    IF b.fail = 1 THEN Err("reason")
    ELSE LET ops == ScanOperators(b, pos, 1, buckets)
         IN  IF ops.tag = "Err" THEN ops
             ELSE IF b.fail = 2 + b.nlocals THEN Err("reason")
             ELSE ScanLocals(b, pos, 1, ops.val)

\* one CodeSectionEntry: locals first, then operators
ScanBody(b, pos, buckets) ==
    IF b.fail = 1 THEN Err("reason")
    ELSE LET locals == ScanLocals(b, pos, 1, buckets)
         IN  IF locals.tag = "Err" THEN locals
             ELSE IF b.fail = 2 + b.nlocals THEN Err("reason")
             ELSE ScanOperators(b, pos, 1, locals.val)

RECURSIVE ScanPayloads(_, _, _)
ScanPayloads(ps, i, buckets) ==
    IF i > Len(ps) THEN Ok(buckets)
    ELSE IF ps[i].kind = "Err" THEN Err("reason")
    ELSE IF ps[i].kind = "CodeSectionEntry"
         THEN LET body == ScanBody(ps[i].body, ps[i].pos, buckets)
              IN  IF body.tag = "Err" THEN body
                  ELSE ScanPayloads(ps, i + 1, body.val)
    ELSE ScanPayloads(ps, i + 1, buckets)

\* Module::compute_instruction_offsets
compute_instruction_offsets(m, buckets) == ScanPayloads(Payloads(m), 1, buckets)

\* Module::mappings_including_instruction_offsets
InstructionOffsetsOf(m, checks) ==
    LET ms == MappingsOf(m, checks)
    IN  IF ms.tag # "Ok" THEN ms
        ELSE LET buckets == NewBuckets(ms.val, 1, <<>>, checks)
             IN  IF buckets.tag # "Ok" THEN buckets
                 ELSE MapErr(compute_instruction_offsets(m, buckets.val), "Binary")

\* ------------------------------------------------------------ state machine
\* addresses a caller resolves: both ends of the address space, the start of
\* the code section, and the address of every row of the line table as
\* mappings() reports it
Probes(m) ==
    {0, U64Max, m.start}
        \cup { m.start + m.rows[i].offset + 1 : i \in DOMAIN m.rows }

Init ==
    /\ module \in Modules
    /\ mappings = Unset
    /\ result = [op |-> "new", arg |-> 0, out |-> Unset]

addr2line(byte_address) ==
    /\ result' = [op |-> "addr2line", arg |-> byte_address,
                  out |-> Addr2lineOf(module, byte_address)]
    /\ UNCHANGED <<module, mappings>>

Mappings(checks) ==
    /\ mappings' = MappingsOf(module, checks)
    /\ result' = [op |-> "mappings", arg |-> 0, out |-> mappings']
    /\ UNCHANGED module

files(checks) ==
    /\ result' = [op |-> "files", arg |-> 0, out |-> FilesOf(module, checks)]
    /\ UNCHANGED <<module, mappings>>

mappings_including_instruction_offsets(checks) ==
    /\ result' = [op |-> "mappings_including_instruction_offsets", arg |-> 0,
                  out |-> InstructionOffsetsOf(module, checks)]
    /\ UNCHANGED <<module, mappings>>

Next ==
    \/ \E a \in Probes(module) : addr2line(a)
    \/ \E checks \in BOOLEAN : Mappings(checks)
    \/ \E checks \in BOOLEAN : files(checks)
    \/ \E checks \in BOOLEAN : mappings_including_instruction_offsets(checks)

Spec == Init /\ [][Next]_vars

\* ------------------------------------------------------------------ claims
out == result.out

\* the payload stream decodes to its end
StreamOk(m) == \A i \in DOMAIN Payloads(m) : Payloads(m)[i].kind # "Err"

\* the module has no code section
NoCodeSection(m) ==
    StreamOk(m) /\ \A i \in DOMAIN Payloads(m) : Payloads(m)[i].kind # "CodeSectionStart"

\* C1: on a module without a code section mappings() returns Ok with no
\* mapping and files() returns Ok with no file, whatever debug info it carries.
C1_NoCodeSectionIsEmpty ==
    NoCodeSection(module) =>
        /\ mappings # Unset => mappings = Ok(<<>>)
        /\ result.op = "files" => (out.tag = "Ok" /\ out.val = {})

C1_Witness ==
    /\ NoCodeSection(module)
    /\ module.debug = "ok" /\ module.rows # <<>>
    /\ mappings = Ok(<<>>)
    /\ result.op = "files" /\ out.tag = "Ok"

\* C2: on a module for which the debug reader has no context at the start of
\* the code section, files() returns Ok with the empty set.
C2_NoContextFilesEmpty ==
    ( /\ result.op = "files"
      /\ StreamOk(module)
      /\ module.debug = "none" )
        => (out.tag = "Ok" /\ out.val = {})

\* C3: addr2line at the address of a Mapping that mappings() returned succeeds
\* and names that Mapping's file.
C3_MappingAddressResolves ==
    ( /\ mappings.tag = "Ok"
      /\ result.op = "addr2line" )
        => \A i \in DOMAIN mappings.val :
              mappings.val[i].address = result.arg =>
                  /\ out.tag = "Ok"
                  /\ out.val.file = mappings.val[i].location.file

\* the row of the line table that covers a text-relative address
RowsAt(m, rel) == { i \in DOMAIN m.rows : Covers(m.rows[i], rel) }

\* the errors of a lookup that got no debug context
ContextUnavailable(r) ==
    r.tag = "Err" /\ r.err \in {"ContextCreation1", "ContextCreation2"}

\* C4: addr2line fails with ContextCreation2 when the reader has no context
\* for the address; at address 0 and at the largest address of a module with
\* a code section it fails for want of a context; it fails with
\* FindTextOffset2 when the context has no row at the text-relative address;
\* otherwise it returns the location of the row at the text-relative address.
C4_Addr2lineOutcomes ==
    (result.op = "addr2line" /\ StreamOk(module)) =>
        LET ctx == Context(module, result.arg)
            rel == result.arg - module.start
        IN  /\ (module.hasCode /\ result.arg \in {0, U64Max})
                   => ContextUnavailable(out)
            /\ ctx = Ok(None) => out = Err("ContextCreation2")
            /\ (ctx.tag = "Ok" /\ ctx.val # None /\ module.debug = "ok") =>
                   /\ ctx.val[1] = rel
                   /\ RowsAt(module, rel) = {} => out = Err("FindTextOffset2")
                   /\ \A i \in RowsAt(module, rel) :
                         /\ out.tag = "Ok"
                         /\ out.val.file = module.rows[i].location.file
                         /\ out.val.line = module.rows[i].location.line
                         /\ out.val.column = module.rows[i].location.column

\* a successful lookup whose raw byte address is covered by another row
C4_Witness ==
    /\ result.op = "addr2line" /\ out.tag = "Ok"
    /\ \E i \in RowsAt(module, result.arg) :
          module.rows[i].location # module.rows[
              CHOOSE j \in RowsAt(module, result.arg - module.start) : TRUE].location

\* C5: every instruction of a returned bucket has its address inside the
\* bucket's half-open address range.
C5_InstructionsInRange ==
    (result.op = "mappings_including_instruction_offsets" /\ out.tag = "Ok") =>
        \A k \in DOMAIN out.val :
            \A n \in DOMAIN out.val[k].instructions :
                /\ out.val[k].address_range.start <= out.val[k].instructions[n].address
                /\ out.val[k].instructions[n].address < out.val[k].address_range.end

\* a bucket that ends where the next instruction starts
C5_Witness ==
    /\ result.op = "mappings_including_instruction_offsets" /\ out.tag = "Ok"
    /\ \E k, l \in DOMAIN out.val :
          /\ out.val[l].instructions # <<>>
          /\ out.val[l].instructions[1].address = out.val[k].address_range.end

\* some step of the instruction scan is malformed
DecodeFailure(m) == ~StreamOk(m) \/ \E i \in DOMAIN m.funcs : m.funcs[i].fail # 0

\* the decoded items of one function body, locals first
ItemsOfBody(b, pos) ==
    [k \in 1..b.nlocals |-> [address |-> pos + 2 + 2 * (k - 1), instr |-> "Local"]]
    \o [k \in 1..b.nops |->
           [address |-> pos + 2 + 2 * b.nlocals + (k - 1), instr |-> "Body"]]

\* the decoded items of the code section, in scan order
RECURSIVE ItemsUpTo(_, _)
ItemsUpTo(m, n) ==
    IF n = 0 THEN <<>>
    ELSE ItemsUpTo(m, n - 1) \o ItemsOfBody(m.funcs[n], EntryPos(m.start, m.funcs, n))

ScanItems(m) == ItemsUpTo(m, Len(m.funcs))

\* C6: mappings_including_instruction_offsets returns buckets only when the
\* whole scan decoded; once the buckets exist, a malformed step makes it
\* return the Binary error and no bucket.
C6_AllOrNothing ==
    result.op = "mappings_including_instruction_offsets" =>
        /\ out.tag = "Ok" => ~DecodeFailure(module)
        /\ ( /\ DecodeFailure(module)
             /\ mappings.tag = "Ok"
             /\ out.tag # "Panic" ) => out = Err("Binary")

\* a scan that fails after it has put a local declaration into a bucket
C6_Witness ==
    /\ result.op = "mappings_including_instruction_offsets"
    /\ out = Err("Binary")
    /\ mappings.tag = "Ok"
    /\ \E i \in DOMAIN module.funcs :
          /\ module.funcs[i].nlocals = 1
          /\ module.funcs[i].fail > 2
          /\ \E k \in DOMAIN mappings.val :
                LET a == EntryPos(module.start, module.funcs, i) + 2
                IN  /\ mappings.val[k].address <= a
                    /\ a < mappings.val[k].address + mappings.val[k].range_size
                    /\ mappings.val[k].address + mappings.val[k].range_size <= U64Max

\* C7: the mappings are in strictly ascending address order and their ranges
\* [address, address + range_size) do not overlap.
C7_AscendingDisjoint ==
    mappings.tag = "Ok" =>
        \A i, j \in DOMAIN mappings.val :
            i < j =>
                /\ mappings.val[i].address < mappings.val[j].address
                /\ mappings.val[i].address + mappings.val[i].range_size
                       <= mappings.val[j].address

C7_Witness == mappings.tag = "Ok" /\ Len(mappings.val) >= 2

\* C8: mappings() returns one Mapping per range of the reader, in the reader's
\* order, at address start + offset + 1, with the range's size and its
\* location, an absent column staying absent and column 0 staying 0.
C8_OneMappingPerRange ==
    ( /\ mappings # Unset
      /\ StreamOk(module) /\ module.hasCode /\ module.debug = "ok" ) =>
        LET ranges == FindLocationRange(module, 0, CodeSize(module.funcs)).val
        IN  /\ mappings.tag = "Ok"
            /\ Len(mappings.val) = Len(ranges)
            /\ \A i \in DOMAIN ranges :
                  /\ mappings.val[i].address = module.start + ranges[i].offset + 1
                  /\ mappings.val[i].range_size = ranges[i].size
                  /\ mappings.val[i].location.file = ranges[i].location.file
                  /\ mappings.val[i].location.line = ranges[i].location.line
                  /\ mappings.val[i].location.column = ranges[i].location.column

\* two mappings, one without a column and one at column 0
C8_Witness ==
    /\ mappings.tag = "Ok" /\ Len(mappings.val) = 2
    /\ Len(module.rows) = 2 /\ module.start > 0
    /\ mappings.val[1].location.column = None
    /\ mappings.val[2].location.column = Some(0)

C10_NoOverflow ==
    /\ out.tag # "Panic"
    /\ (result.op = "mappings_including_instruction_offsets" /\ out.tag = "Ok") =>
          \A k \in DOMAIN out.val :
              out.val[k].address_range.end >= out.val[k].address_range.start

====
